---- MODULE Spec2Model ----
(***************************************************************************)
(* Generation Orchestration Engine of WP Optimizer Pro (AI orchestrator):  *)
(* the per-provider circuit breaker, the unified LLM caller (callLLM) and  *)
(* the staged / single-shot pipelines of AIOrchestrator.                   *)
(*                                                                         *)
(* One action is one turn of the JavaScript event loop: the I/O or timer   *)
(* callback together with every continuation (microtask) it resumes.       *)
(* Date.now() is the variable now; it advances between turns.              *)
(***************************************************************************)
EXTENDS Integers, Sequences, FiniteSets, TLC

\* ------------------------------------------------------------------------
\* Program constants
\* ------------------------------------------------------------------------
FAILURE_THRESHOLD == 3
RESET_TIMEOUT == 60000
HALF_OPEN_REQUESTS == 1
OUTLINE_GENERATION == 60000
SECTION_GENERATION == 90000
SINGLE_SHOT_GENERATION == 180000
MAX_ATTEMPTS == 3
MIN_ACCEPTABLE_WORDS == 2500
\* The literals of generateContentOutline, generateSection, generateEnhanced,
\* generate and calculateBackoff.
MIN_OUTLINE_SECTIONS == 5
MIN_SECTION_WORDS == 100
BATCH_SIZE == 2
BATCH_SLEEP_MS == 1000
MIN_BODY_LENGTH == 5000
ABSOLUTE_FLOOR_WORDS == 2000
BACKOFF_BASE_MS == 2000
BACKOFF_CAP_MS == 30000
JITTER_MS == 1000
PREVIEW_LENGTH == 150

\* ------------------------------------------------------------------------
\* Bounds of the model
\* ------------------------------------------------------------------------
\* The clock runs from StartTime to MaxTicks * TickMs in steps of TickMs.
MaxTicks == 6
\* The clock of a generateEnhanced request runs to MaxOrchTicks * TickMs (and
\* on while the request sleeps).
MaxOrchTicks == 4
\* A failure is recorded only while the failure count is below MaxFailures.
MaxFailures == 4
\* An outline response holds at most MaxSections sections.
MaxSections == 5
\* The clock of a request that enters generate() directly runs to
\* MaxSingleTicks * TickMs.
MaxSingleTicks == 8
\* calculateBackoff is studied for the attempts 0..MaxBackoffAttempt.
MaxBackoffAttempt == 5
\* healJSON is studied on structured text of at most MaxTextLen tokens nested
\* at most MaxDepth deep (plus what is wrapped around it).
MaxTextLen == 8
MaxDepth == 3

TickMs == RESET_TIMEOUT \div 2
StartTime == TickMs

\* The providers callLLM dispatches on, and a name its switch does not know.
KnownProviders == {"google", "openrouter", "openai", "anthropic", "groq"}
UnknownProviders == {"other"}
AllProviders == KnownProviders \cup UnknownProviders

\* HTTP statuses with which a backend may refuse a request.
Statuses == {401, 429, 500, 502, 503, 504}

\* The concurrent callers of callLLM in the gateway specification.
Callers == {"c1", "c2"}
\* The callLLM invocations one generation request can have outstanding: the
\* call of the sequential phases and the two section calls of a batch.
OrchCalls == {"main", "s1", "s2"}
CallIds == Callers \cup OrchCalls

VARIABLES
    now,        \* Date.now()
    breaker,    \* circuitBreakers: provider -> CircuitBreakerState
    calls,      \* the outstanding callLLM invocations, by caller
    provider,   \* the provider addressed (config.provider)
    orch,       \* the locals of one generateEnhanced / generate invocation
    openedAt,   \* history (gateway specification): when a recorded failure
                \* last left a breaker open
    ev,         \* history: the events of the last turn (of the whole
                \* request in the single-shot specification)
    applied     \* the application of a pure function under study: its
                \* arguments and, once it returned, its value

vars == <<now, breaker, calls, provider, orch, openedAt, ev, applied>>

\* No pure function is under study.
NoApplication == [fn |-> "none", args |-> <<>>, done |-> FALSE, out |-> 0]

\* ------------------------------------------------------------------------
\* Circuit breaker registry
\* ------------------------------------------------------------------------
\* getCircuitBreaker: the state a provider gets on first use.
NewBreaker == [failures |-> 0, lastFailure |-> 0, isOpen |-> FALSE]

\* Mutant of recordFailure: opens only above the threshold.
recordFailureAboveThreshold(b, t) ==
    LET n == b.failures + 1
    IN  [failures |-> n,
         lastFailure |-> t,
         isOpen |-> IF n > FAILURE_THRESHOLD THEN TRUE ELSE b.isOpen]

\* Mutant of recordFailure: the time of the failure is not stamped.
recordFailureNoStamp(b, t) ==
    LET n == b.failures + 1
    IN  [failures |-> n,
         lastFailure |-> b.lastFailure,
         isOpen |-> IF n >= FAILURE_THRESHOLD THEN TRUE ELSE b.isOpen]

\* recordFailure on breaker state b at time t.
recordFailure(b, t) ==
    LET n == b.failures + 1
    IN  [failures |-> n,
         lastFailure |-> t,
         isOpen |-> IF n >= FAILURE_THRESHOLD THEN TRUE ELSE b.isOpen]

\* Mutant of recordSuccess: the open flag is not cleared.
recordSuccessKeepsOpen(b) ==
    [b EXCEPT !.failures = 0]

\* recordSuccess on breaker state b.
recordSuccess(b) ==
    [b EXCEPT !.failures = 0, !.isOpen = FALSE]

\* Mutant of isCircuitOpen: the reset window is not looked at.
isCircuitOpenNoReset(b, t) ==
    b.isOpen

\* isCircuitOpen for breaker state b at time t.
isCircuitOpen(b, t) ==
    IF ~b.isOpen THEN FALSE
    ELSE IF t - b.lastFailure > RESET_TIMEOUT THEN FALSE
    ELSE TRUE

\* ------------------------------------------------------------------------
\* callLLM
\* ------------------------------------------------------------------------
\* Outcomes of an adapter call: the text, an Error carrying the HTTP status
\* ("<Adapter> error <status>"), or the AbortError of an aborted fetch.
OkOutcome == [type |-> "ok", status |-> 200]
HttpError(s) == [type |-> "http", status |-> s]
AbortError == [type |-> "abort", status |-> 0]
UnknownProviderError == [type |-> "unknown", status |-> 0]
BackendOutcomes == {OkOutcome} \cup {HttpError(s) : s \in Statuses}

\* error.message.includes(code): the adapters' messages hold the status and
\* no other digits; "Unknown provider: other" holds none.
MessageIncludes(err, code) ==
    err.type = "http" /\ err.status = code

\* The adapters that hand the AbortSignal to fetch; callGemini ignores it.
HonoursSignal(p) == p \in {"openrouter", "openai", "anthropic", "groq"}

\* Mutant of RecordsFailure: every error is recorded.
RecordsEveryError(err) ==
    err.type # "ok"

\* The catch block of callLLM: does it record a failure for this error?
RecordsFailure(err) ==
    \/ err.type = "abort"
    \/ MessageIncludes(err, 429)
    \/ MessageIncludes(err, 500)
    \/ MessageIncludes(err, 503)

\* What callLLM hands to its caller for an adapter outcome.
Thrown(o) ==
    CASE o.type = "ok" -> "ok"
      [] o.type = "abort" -> "timeout"
      [] o.type = "unknown" -> "unknown-provider"
      [] OTHER -> "http-error"

\* The breaker state after callLLM has handled adapter outcome o at time t.
BreakerAfter(b, o, t) ==
    IF o.type = "ok" THEN recordSuccess(b)
    ELSE IF RecordsFailure(o) THEN recordFailure(b, t)
    ELSE b

\* The history record of one gateway event: what happened ("reject",
\* "dispatch", "unknown" at the entry of callLLM; "ok", "http-error", "abort"
\* when the adapter's promise settles or the abort timer fires), and whether
\* the call is a trial call: one dispatched to a breaker whose open flag was
\* set and whose reset window had elapsed.
Event(kind, c, p, status, trial) ==
    [kind |-> kind, call |-> c, provider |-> p, status |-> status, trial |-> trial]

IsTrial(b, start) == b.isOpen /\ start - b.lastFailure > RESET_TIMEOUT

OutcomeKind(o) == IF o.type = "ok" THEN "ok" ELSE "http-error"

IdleCall == [state |-> "idle", start |-> 0, timeoutMs |-> 0, aborted |-> FALSE,
             result |-> "none"]

\* History: the time of the latest recorded failure that left the breaker
\* open (0 when none has).
OpenedAfter(oa, b, o, t) ==
    IF RecordsFailure(o) /\ BreakerAfter(b, o, t).isOpen THEN t ELSE oa

\* ------------------------------------------------------------------------
\* healJSON.  A response text is a sequence of tokens:
\*   "{" "}" "[" "]" ","   the structural characters of JSON
\*   "h"   the member "htmlContent": "<a non-empty string>"
\*   "e"   the member "htmlContent": ""
\*   "t"   the member "title": "<a non-empty string>"
\*   "m"   the member "metaDescription": "<a string>"
\*   "p"   any other member with a scalar value
\*   "k"   a key and its colon, in front of a nested value
\*   "v"   a scalar value (array element or whole text)
\*   "F"   a fence marker (three backquotes), with or without the tag json
\*   "x"   text that is not JSON: prose, or a fence tag other than json
\* Strings hold no braces, brackets or fence markers of their own.
\* ------------------------------------------------------------------------
Min(a, b) == IF a <= b THEN a ELSE b

JsonTokens == {"{", "}", "[", "]", ",", "h", "e", "t", "m", "p", "k", "v"}
Members == {"h", "e", "t", "m", "p"}

\* JSON.parse as a pushdown automaton: stack holds the open delimiters, exp
\* what may come next, body whether the top-level object has a truthy
\* htmlContent (the last such member wins).
JStart == [ok |-> TRUE, stack |-> <<>>, exp |-> "start", body |-> FALSE]
JFail(st) == [st EXCEPT !.ok = FALSE]
JValueDone(st, stack) ==
    [st EXCEPT !.stack = stack, !.exp = IF stack = <<>> THEN "end" ELSE "after"]
JPop(st) == JValueDone(st, SubSeq(st.stack, 1, Len(st.stack) - 1))
Closer(open) == IF open = "{" THEN "}" ELSE "]"

JStep(st, tok) ==
    LET depth == Len(st.stack)
        ctx == IF depth = 0 THEN "top" ELSE st.stack[depth]
    IN  IF ~st.ok \/ st.exp = "end" THEN JFail(st)
        ELSE IF st.exp = "after"
        THEN IF tok = "," THEN [st EXCEPT !.exp = "next"]
             ELSE IF tok = Closer(ctx) THEN JPop(st)
             ELSE JFail(st)
        ELSE IF ctx = "{" /\ st.exp \in {"first", "next"}
        THEN IF tok \in Members
             THEN [st EXCEPT !.exp = "after",
                             !.body = IF depth = 1 /\ tok \in {"h", "e"}
                                      THEN tok = "h" ELSE @]
             ELSE IF tok = "k" THEN [st EXCEPT !.exp = "val"]
             ELSE IF tok = "}" /\ st.exp = "first" THEN JPop(st)
             ELSE JFail(st)
        ELSE \* a value is expected
             IF tok \in {"{", "["}
             THEN [st EXCEPT !.stack = Append(@, tok), !.exp = "first"]
             ELSE IF tok = "v" THEN JValueDone(st, st.stack)
             ELSE IF tok = "]" /\ ctx = "[" /\ st.exp = "first" THEN JPop(st)
             ELSE JFail(st)

RECURSIVE JRun(_, _)
JRun(st, toks) ==
    IF toks = <<>> THEN st ELSE JRun(JStep(st, Head(toks)), Tail(toks))

\* JSON.parse(toks) returns, and: it returns an object whose htmlContent is
\* truthy (the test "parsed.htmlContent" of every strategy).
Parses(toks) == LET st == JRun(JStart, toks) IN st.ok /\ st.exp = "end"
\* Mutant of HasBody: the htmlContent test is left out.
HasBodyNotTested(toks) == LET st == JRun(JStart, toks) IN st.ok /\ st.exp = "end"
HasBody(toks) == LET st == JRun(JStart, toks) IN st.ok /\ st.exp = "end" /\ st.body

Count(toks, tok) == Cardinality({ n \in DOMAIN toks : toks[n] = tok })
Positions(toks, set) == { n \in DOMAIN toks : toks[n] \in set }
MinOf(S) == CHOOSE n \in S : \A m \in S : n <= m
MaxOf(S) == CHOOSE n \in S : \A m \in S : m <= n
Repeat(tok, n) == [k \in 1..(IF n > 0 THEN n ELSE 0) |-> tok]

\* validateResponseCompleteness(text): isTruncated and truncationType.
validateResponseCompleteness(text) ==
    IF text = <<>>
    THEN [isTruncated |-> FALSE, truncationType |-> "none"]
    ELSE IF Count(text, "{") - Count(text, "}") > 0
            \/ Count(text, "[") - Count(text, "]") > 0
    THEN [isTruncated |-> TRUE, truncationType |-> "json"]
    ELSE IF ~(/\ Positions(text, {"h", "e"}) # {}
              /\ Positions(text, {"t"}) # {}
              /\ Positions(text, {"m"}) # {})
    THEN [isTruncated |-> TRUE, truncationType |-> "content"]
    ELSE IF text[Len(text)] # "}"
    THEN [isTruncated |-> TRUE, truncationType |-> "json"]
    ELSE [isTruncated |-> FALSE, truncationType |-> "none"]

\* Strategy 2: the text between the first fence marker and the next one.
FencedBlock(text) ==
    LET f == Positions(text, {"F"})
        a == MinOf(f)
        b == MinOf(f \ {a})
    IN  SubSeq(text, a + 1, b - 1)

\* Strategy 3: from the first "{" to the last "}".
Boundaries(text) ==
    SubSeq(text, MinOf(Positions(text, {"{"})), MaxOf(Positions(text, {"}"})))

\* Strategy 4: a comma in front of a closing delimiter is dropped.
RECURSIVE FixCommas(_)
FixCommas(text) ==
    IF text = <<>> THEN <<>>
    ELSE IF Head(text) = "," /\ Len(text) >= 2 /\ text[2] \in {"}", "]"}
    THEN FixCommas(Tail(text))
    ELSE <<Head(text)>> \o FixCommas(Tail(text))

\* Strategy 5: the missing brackets, then the missing braces, are appended.
CloseTruncated(text) ==
    text \o Repeat("]", Count(text, "[") - Count(text, "]"))
         \o Repeat("}", Count(text, "{") - Count(text, "}"))

\* Strategy 6: the first "htmlContent" member is a non-empty string and a
\* "title" member is found.
FieldsExtracted(text) ==
    /\ Positions(text, {"h", "e"}) # {}
    /\ text[MinOf(Positions(text, {"h", "e"}))] = "h"
    /\ Positions(text, {"t"}) # {}

\* The ParsedResponse of healJSON: strategy is the strategy that returned
\* (0: none), parsed the text JSON.parse accepted, error the error text
\* ("empty": Empty response text, "parse": JSON parse failed) and preview
\* the part of the text the error quotes.
HealedAlwaysFlagged(strategy, parsed, isTruncated) ==
    [success |-> TRUE, strategy |-> strategy, parsed |-> parsed,
     isTruncated |-> TRUE, error |-> "none", preview |-> <<>>]
Healed(strategy, parsed, isTruncated) ==
    [success |-> TRUE, strategy |-> strategy, parsed |-> parsed,
     isTruncated |-> isTruncated, error |-> "none", preview |-> <<>>]
NotHealed(error, preview, isTruncated) ==
    [success |-> FALSE, strategy |-> 0, parsed |-> <<>>,
     isTruncated |-> isTruncated, error |-> error, preview |-> preview]

\* text.slice(0, 150), a token counted as one character.
Preview(text) == SubSeq(text, 1, Min(Len(text), PREVIEW_LENGTH))

\* Strategy 2: the regular expression matches.
FenceFound(text) ==
    Cardinality(Positions(text, {"F"})) >= 2

healJSON(rawText) ==
    LET text == rawText
        validation == validateResponseCompleteness(text)
    IN  IF text = <<>> THEN NotHealed("empty", <<>>, FALSE)
        ELSE IF HasBody(text) THEN Healed(1, text, FALSE)
        ELSE IF FenceFound(text) /\ HasBody(FencedBlock(text))
        THEN Healed(2, FencedBlock(text), FALSE)
        ELSE IF /\ Positions(text, {"{"}) # {} /\ Positions(text, {"}"}) # {}
                /\ MaxOf(Positions(text, {"}"})) > MinOf(Positions(text, {"{"}))
                /\ HasBody(Boundaries(text))
        THEN Healed(3, Boundaries(text), FALSE)
        ELSE IF HasBody(FixCommas(text)) THEN Healed(4, FixCommas(text), FALSE)
        ELSE IF /\ validation.isTruncated /\ validation.truncationType = "json"
                /\ HasBody(CloseTruncated(text))
        THEN Healed(5, CloseTruncated(text), TRUE)
        ELSE IF FieldsExtracted(text) THEN Healed(6, <<>>, TRUE)
        ELSE NotHealed("parse", Preview(text), validation.isTruncated)

\* ------------------------------------------------------------------------
\* The data of one generation request
\* ------------------------------------------------------------------------
\* The texts the outline call can answer with: prose, the JSON object the
\* outline prompt asks for (title, metaDescription, the sections array; no
\* htmlContent), the same with an empty htmlContent member, and the same
\* with a non-empty one.
OutlineProse == <<"x">>
OutlineAsPrompted == <<"{", "t", ",", "m", ",", "k", "[", "v", "]", "}">>
OutlineEmptyBody == <<"{", "e", ",", "t", ",", "m", ",", "k", "[", "v", "]", "}">>
OutlineWithBody == <<"{", "h", ",", "t", ",", "m", ",", "k", "[", "v", "]", "}">>

\* What generateContentOutline gets from healJSON for a response text whose
\* sections array holds n sections, of which section bad (0: none) lacks the
\* keyPoints / subsections arrays that generateSection reads.
OutlineResponse(text, n, bad) ==
    [kind |-> "response", text |-> text, healed |-> healJSON(text).success,
     n |-> n, bad |-> bad]

OutlineResponses ==
    { OutlineResponse(OutlineProse, 0, 0),
      OutlineResponse(OutlineAsPrompted, MIN_OUTLINE_SECTIONS, 0),
      OutlineResponse(OutlineEmptyBody, MIN_OUTLINE_SECTIONS, 0) }
    \cup { OutlineResponse(OutlineWithBody, n, 0) :
             n \in (MIN_OUTLINE_SECTIONS - 1)..MaxSections }
    \cup { OutlineResponse(OutlineWithBody, n, k) :
             n \in MIN_OUTLINE_SECTIONS..MaxSections, k \in {2, 5} }
NoResponse == [kind |-> "none", text |-> <<>>, healed |-> FALSE, n |-> 0, bad |-> 0]
CallFailed == [kind |-> "call-failed", text |-> <<>>, healed |-> FALSE, n |-> 0, bad |-> 0]

\* Word counts of a section response, and of a single-shot response with
\* whether its body is longer than MIN_BODY_LENGTH characters.
SectionWords == {50, 300}
SingleResponses ==
    { [healed |-> FALSE, words |-> 0, long |-> FALSE] }
    \cup { [healed |-> TRUE, words |-> w, long |-> TRUE] : w \in {1800, 2200, 3000} }
    \cup { [healed |-> TRUE, words |-> 3000, long |-> FALSE] }
\* What an attempt of a request that enters generate() directly can get:
\* text that healJSON does not heal, or a contract of so many words whose
\* body is, or is not, longer than MIN_BODY_LENGTH characters.
SingleShotResponses ==
    { [healed |-> FALSE, words |-> 0, long |-> FALSE] }
    \cup { [healed |-> TRUE, words |-> w, long |-> TRUE] :
             w \in {1200, 1800, ABSOLUTE_FLOOR_WORDS, MIN_ACCEPTABLE_WORDS, 3000} }
    \cup { [healed |-> TRUE, words |-> w, long |-> FALSE] :
             w \in {MIN_ACCEPTABLE_WORDS, 3000} }
\* Math.random() * 1000, in whole milliseconds.
Jitters == {0, 999}

\* A GenerationResult (status "returned") or the rejection of the request
\* ("threw"): content is the attempt whose contract a single-shot result
\* carries, error the lastError a terminal error carries.
NoResult == [status |-> "none", method |-> "none", attempts |-> 0,
             content |-> 0, error |-> ""]
NoOutline == [n |-> 0, bad |-> 0]

\* What generateEnhanced awaits after the sections, in program order: the
\* FAQ call, the reference lookup (with a serper key), the introduction and
\* the conclusion calls.
MergeStages == <<"faq", "refs", "intro", "concl">>

IdleOrch ==
    [pc |-> "idle",
     resp |-> NoResponse,            \* history: what the outline phase got
     outline |-> NoOutline,          \* the accepted outline
     i |-> 0,                        \* first section (1-based) of the batch
     slot |-> [c \in {"s1", "s2"} |-> "none"],
     sections |-> <<>>,              \* the sections array
     degraded |-> {},                \* merge stages replaced by a placeholder
     serper |-> FALSE,               \* config.apiKeys.serper is set
     video |-> "none",               \* the video lookup: "searching", "found",
                                     \* "failed" (youtubeVideo stays null)
     refs |-> "none",                \* the reference lookup, likewise
     progress |-> 0,                 \* history: the last value reported
     attempt |-> 0,
     best |-> 0,                     \* bestWordCount
     bestAt |-> 0,                   \* the attempt of bestResult (0: null)
     lastError |-> "",
     sleepUntil |-> 0,
     result |-> NoResult,
     \* history: the gateway calls made for each phase, and how many times
     \* generate() was entered
     issued |-> [outline |-> 0, section |-> 0, merge |-> 0, single |-> 0,
                 generate |-> 0]]

\* ------------------------------------------------------------------------
\* Gateway specification: concurrent callers of callLLM on one provider
\* ------------------------------------------------------------------------
InitGateway ==
    /\ now = StartTime
    /\ breaker = [p \in AllProviders |-> NewBreaker]
    /\ openedAt = [p \in AllProviders |-> 0]
    /\ calls = [c \in CallIds |-> IdleCall]
    /\ orch = IdleOrch
    /\ provider \in AllProviders
    /\ ev = <<>>
    /\ applied = NoApplication

\* Time passes between two turns of the event loop (it is followed until the
\* request has ended and none of its calls is outstanding).
Tick ==
    /\ now < MaxTicks * TickMs
    /\ orch.pc \in {"done", "failed"} => \E c \in CallIds : calls[c].state = "inflight"
    /\ now' = now + TickMs
    /\ ev' = <<>>
    /\ UNCHANGED <<breaker, openedAt, calls, provider, orch, applied>>

\* callLLM up to its first await: the breaker check, the abort timer and the
\* dispatch to the adapter (or the throw of the default branch).
GwCall(c, timeoutMs) ==
    LET p == provider
        b == breaker[p]
    IN  /\ calls[c].state = "idle"
        /\ IF isCircuitOpen(b, now)
           THEN /\ calls' = [calls EXCEPT ![c] = [IdleCall EXCEPT !.result = "breaker-open"]]
                /\ ev' = <<Event("reject", c, p, 0, FALSE)>>
                /\ UNCHANGED <<breaker, openedAt>>
           ELSE IF p \in KnownProviders
           THEN /\ calls' = [calls EXCEPT ![c] =
                        [state |-> "inflight", start |-> now, timeoutMs |-> timeoutMs,
                         aborted |-> FALSE, result |-> "none"]]
                /\ ev' = <<Event("dispatch", c, p, 0, IsTrial(b, now))>>
                /\ UNCHANGED <<breaker, openedAt>>
           ELSE /\ calls' = [calls EXCEPT ![c] =
                        [IdleCall EXCEPT !.result = Thrown(UnknownProviderError)]]
                /\ breaker' = [breaker EXCEPT ![p] = BreakerAfter(b, UnknownProviderError, now)]
                /\ openedAt' = [openedAt EXCEPT ![p] =
                        OpenedAfter(openedAt[p], b, UnknownProviderError, now)]
                /\ ev' = <<Event("unknown", c, p, 0, FALSE)>>
        /\ UNCHANGED <<now, provider, orch, applied>>

\* The adapter's promise settles with outcome o: the rest of callLLM runs.
GwRespond(c, o) ==
    LET p == provider
        b == breaker[p]
    IN  /\ calls[c].state = "inflight"
        /\ RecordsFailure(o) => b.failures < MaxFailures
        /\ calls' = [calls EXCEPT ![c] = [IdleCall EXCEPT !.result = Thrown(o)]]
        /\ breaker' = [breaker EXCEPT ![p] = BreakerAfter(b, o, now)]
        /\ openedAt' = [openedAt EXCEPT ![p] = OpenedAfter(openedAt[p], b, o, now)]
        /\ ev' = <<Event(OutcomeKind(o), c, p, o.status, IsTrial(b, calls[c].start))>>
        /\ UNCHANGED <<now, provider, orch, applied>>

\* The abort timer of callLLM fires: controller.abort().  A fetch that was
\* given the signal rejects with AbortError; callGemini goes on waiting.
GwTimeout(c) ==
    LET p == provider
        b == breaker[p]
    IN  /\ calls[c].state = "inflight"
        /\ ~calls[c].aborted
        /\ now >= calls[c].start + calls[c].timeoutMs
        /\ IF HonoursSignal(p)
           THEN /\ b.failures < MaxFailures
                /\ calls' = [calls EXCEPT ![c] = [IdleCall EXCEPT !.result = Thrown(AbortError)]]
                /\ breaker' = [breaker EXCEPT ![p] = BreakerAfter(b, AbortError, now)]
                /\ openedAt' = [openedAt EXCEPT ![p] =
                        OpenedAfter(openedAt[p], b, AbortError, now)]
           ELSE /\ calls' = [calls EXCEPT ![c].aborted = TRUE]
                /\ UNCHANGED <<breaker, openedAt>>
        /\ ev' = <<Event("abort", c, p, 0, IsTrial(b, calls[c].start))>>
        /\ UNCHANGED <<now, provider, orch, applied>>

NextGateway ==
    \/ Tick
    \/ \E c \in Callers : GwCall(c, SECTION_GENERATION)
    \/ \E c \in Callers, o \in BackendOutcomes : GwRespond(c, o)
    \/ \E c \in Callers : GwTimeout(c)

SpecGateway == InitGateway /\ [][NextGateway]_vars

\* ------------------------------------------------------------------------
\* Properties of the circuit breaker and the gateway (SpecGateway)
\* ------------------------------------------------------------------------
\* Event e is the settling of a call that reached its adapter.
IsCompletion(e) == e.kind \in {"ok", "http-error", "abort"}

\* C1: counting from a closed breaker, the breaker reports open once the third
\* failure is recorded and not before, it reports open as long as the reset
\* window of the last failure has not elapsed, and every successful return
\* sets the failure count to 0 and closes the breaker.
C1_ThreeFailuresOpenSuccessCloses ==
    /\ [](\A p \in AllProviders :
            breaker[p].failures >= FAILURE_THRESHOLD
            /\ now - breaker[p].lastFailure <= RESET_TIMEOUT
            => isCircuitOpen(breaker[p], now))
    /\ [][\A i \in DOMAIN ev' :
            LET e == ev'[i]
                b == breaker[e.provider]
                b2 == breaker'[e.provider]
            IN  /\ e.kind = "ok" =>
                      b2.failures = 0 /\ ~b2.isOpen /\ ~isCircuitOpen(b2, now')
                /\ b2.failures = b.failures + 1 =>
                      (b2.failures >= FAILURE_THRESHOLD <=> isCircuitOpen(b2, now'))]_vars

\* C1 witness: the third failure in a row has just been recorded and the
\* breaker reports open.
C1_Witness ==
    /\ Len(ev) = 1 /\ ev[1].kind \in {"http-error", "abort"}
    /\ breaker[provider].failures = FAILURE_THRESHOLD
    /\ breaker[provider].lastFailure = now
    /\ isCircuitOpen(breaker[provider], now)

\* C2 as stated: once a recorded failure left the breaker open, every call
\* made within the reset window of the last recorded failure is rejected, and
\* a call made after the window is dispatched to the adapter.
C2_RejectedWithinWindow ==
    [][\A i \in DOMAIN ev' :
          LET e == ev'[i]
              b == breaker[e.provider]
          IN  e.kind \in {"dispatch", "reject"}
              /\ openedAt[e.provider] > 0
              /\ openedAt[e.provider] = b.lastFailure
              => IF now - b.lastFailure <= RESET_TIMEOUT
                 THEN e.kind = "reject"
                 ELSE e.kind = "dispatch"]_vars

\* C2 amended: while the open flag of the breaker is set (no call to the
\* provider has returned successfully since it opened), a call made within
\* the reset window of the last recorded failure is rejected without a
\* dispatch to the adapter, and a call to a supported provider made after the
\* window is dispatched.
C2_RejectedWhileOpen ==
    [][\A i \in DOMAIN ev' :
          LET e == ev'[i]
              b == breaker[e.provider]
          IN  e.kind \in {"dispatch", "reject", "unknown"} /\ b.isOpen
              => /\ now - b.lastFailure <= RESET_TIMEOUT =>
                        e.kind = "reject" /\ calls'[e.call].state = "idle"
                 /\ now - b.lastFailure > RESET_TIMEOUT /\ e.provider \in KnownProviders =>
                        e.kind = "dispatch" /\ calls'[e.call].state = "inflight"]_vars

\* C2 witness: a call has just been dispatched to the adapter of a breaker
\* whose open flag is set and whose reset window has elapsed, after an
\* earlier call was rejected.
C2_Witness ==
    /\ Len(ev) = 1 /\ ev[1].kind = "dispatch" /\ ev[1].trial
    /\ breaker[provider].isOpen
    /\ now - breaker[provider].lastFailure > RESET_TIMEOUT
    /\ \E c \in Callers : calls[c].result = "breaker-open"

\* C3: the open flag of a breaker implies that its failure count has reached
\* the threshold.
C3_OpenImpliesThreshold ==
    \A p \in AllProviders :
        breaker[p].isOpen => breaker[p].failures >= FAILURE_THRESHOLD

\* C3 witness: an open breaker that recorded a further failure after a
\* successful return had closed it before.
C3_Witness ==
    /\ breaker[provider].isOpen
    /\ breaker[provider].failures > FAILURE_THRESHOLD
    /\ \E c \in Callers : calls[c].result = "ok"

\* C4 as stated: of the calls dispatched to a breaker whose open flag is set
\* and whose reset window had elapsed, at most HALF_OPEN_REQUESTS (one) is
\* outstanding before an outcome is recorded.
C4_SingleTrialCall ==
    \A p \in AllProviders :
        breaker[p].isOpen
        => Cardinality({ c \in CallIds :
                           /\ p = provider
                           /\ calls[c].state = "inflight"
                           /\ IsTrial(breaker[p], calls[c].start) })
               <= HALF_OPEN_REQUESTS

C6_TimeoutCancelsAndRecords ==
    [][\A i \in DOMAIN ev' :
          LET e == ev'[i]
          IN  e.kind = "abort"
              => /\ calls'[e.call].state = "idle"
                 /\ calls'[e.call].result = "timeout"
                 /\ breaker'[e.provider].failures = breaker[e.provider].failures + 1]_vars

\* C7 as stated: a call that fails with status 429 or any 5xx status records
\* exactly one failure.
C7_TransientRecorded ==
    [][\A i \in DOMAIN ev' :
          LET e == ev'[i]
          IN  e.kind = "http-error" /\ (e.status = 429 \/ e.status \in 500..599)
              => breaker'[e.provider].failures = breaker[e.provider].failures + 1]_vars

NoNote == [kind |-> "", call |-> "", idx |-> 0, res |-> "", att |-> 0,
           status |-> 0, healed |-> FALSE, words |-> 0, long |-> FALSE, ms |-> 0,
           pct |-> 0]
Logged(S, e) == [S EXCEPT !.ev = Append(@, e)]
SectionSettled(c, idx, res) ==
    [NoNote EXCEPT !.kind = "section", !.call = c, !.idx = idx, !.res = res]
BatchFulfilled(last) == [NoNote EXCEPT !.kind = "batch", !.call = last]
AttemptEnded(att, res, status, r) ==
    [NoNote EXCEPT !.kind = "attempt", !.att = att, !.res = res, !.status = status,
                   !.healed = r.healed, !.words = r.words, !.long = r.long]
Slept(att, ms) == [NoNote EXCEPT !.kind = "sleep", !.att = att, !.ms = ms]
Reported(pct) == [NoNote EXCEPT !.kind = "progress", !.pct = pct]
LookedUp(what, res) == [NoNote EXCEPT !.kind = "lookup", !.call = what, !.res = res]
\* onStageProgress?.({ progress: pct }).
Report(S, pct) == Logged([S EXCEPT !.orch.progress = pct], Reported(pct))
NoContract == [healed |-> FALSE, words |-> 0, long |-> FALSE]

Running(c, timeoutMs) ==
    [state |-> "inflight", start |-> now, timeoutMs |-> timeoutMs,
     aborted |-> FALSE, result |-> "none"]

\* callLLM up to its first await, for call slot c.
EntryKind(b) ==
    IF isCircuitOpen(b, now) THEN "reject"
    ELSE IF provider \in KnownProviders THEN "dispatch"
    ELSE "unknown"

Entry(S, c, timeoutMs) ==
    LET k == EntryKind(S.b)
    IN  [S EXCEPT
           !.calls[c] = IF k = "dispatch" THEN Running(c, timeoutMs) ELSE IdleCall,
           !.b = IF k = "unknown" THEN BreakerAfter(S.b, UnknownProviderError, now) ELSE @,
           !.k = k]

\* The rest of callLLM once the adapter's promise of call c settled with o.
Settle(S, c, o) ==
    [S EXCEPT !.calls[c] = IdleCall, !.b = BreakerAfter(S.b, o, now)]

\* Math.pow(2, attempt) for an attempt number >= 0.
Pow2(n) == 2 ^ n
\* calculateBackoff: baseMs * Math.pow(2, attempt).
exponential(attempt, baseMs) == baseMs * Pow2(attempt)

\* Mutant of calculateBackoff: the delay is not clamped.
calculateBackoffUnclamped(attempt, baseMs, j) ==
    exponential(attempt, baseMs) + j

\* calculateBackoff(attempt, baseMs) with jitter j.
calculateBackoff(attempt, baseMs, j) ==
    Min(exponential(attempt, baseMs) + j, BACKOFF_CAP_MS)

\* Mutant of DegradedAllowed: any tracked attempt will do.
DegradedAllowedAnyBest(bestAt, best) ==
    bestAt # 0

\* generate(): the test after the attempt loop (bestResult && bestWordCount
\* >= 2000).
DegradedAllowed(bestAt, best) ==
    bestAt # 0 /\ best >= ABSOLUTE_FLOOR_WORDS

\* Mutant of SSFinal: the degraded result counts one attempt fewer.
SSFinalOneFewer(S) ==
    IF DegradedAllowed(S.orch.bestAt, S.orch.best)
    THEN [S EXCEPT !.orch.pc = "done",
                   !.orch.result = [status |-> "returned", method |-> "single-shot",
                                    attempts |-> MAX_ATTEMPTS - 1,
                                    content |-> S.orch.bestAt, error |-> ""]]
    ELSE [S EXCEPT !.orch.pc = "failed",
                   !.orch.result = [status |-> "threw", method |-> "single-shot",
                                    attempts |-> MAX_ATTEMPTS,
                                    content |-> 0, error |-> S.orch.lastError]]

\* generate(): after the attempt loop.
SSFinal(S) ==
    IF DegradedAllowed(S.orch.bestAt, S.orch.best)
    THEN [S EXCEPT !.orch.pc = "done",
                   !.orch.result = [status |-> "returned", method |-> "single-shot",
                                    attempts |-> MAX_ATTEMPTS,
                                    content |-> S.orch.bestAt, error |-> ""]]
    ELSE [S EXCEPT !.orch.pc = "failed",
                   !.orch.result = [status |-> "threw", method |-> "single-shot",
                                    attempts |-> MAX_ATTEMPTS,
                                    content |-> 0, error |-> S.orch.lastError]]

\* Mutant of SSRetry: the attempt number is not looked at.
SSRetryUnbounded(S, circuit, j) ==
    IF circuit THEN SSFinal(S)
    ELSE Logged([S EXCEPT !.orch.pc = "ss-sleep",
                          !.orch.sleepUntil =
                              now + calculateBackoff(S.orch.attempt - 1, BACKOFF_BASE_MS, j)],
                Slept(S.orch.attempt,
                      calculateBackoff(S.orch.attempt - 1, BACKOFF_BASE_MS, j)))

\* Mutant of SSRetry: a breaker-open error is retried like any other.
SSRetryIgnoresCircuit(S, circuit, j) ==
    IF S.orch.attempt < MAX_ATTEMPTS
    THEN Logged([S EXCEPT !.orch.pc = "ss-sleep",
                          !.orch.sleepUntil =
                              now + calculateBackoff(S.orch.attempt - 1, BACKOFF_BASE_MS, j)],
                Slept(S.orch.attempt,
                      calculateBackoff(S.orch.attempt - 1, BACKOFF_BASE_MS, j)))
    ELSE SSFinal(S)

\* generate(): an attempt ended with a call error or an unhealed response
\* (circuit: the error message includes 'Circuit breaker').
SSRetry(S, circuit, j) ==
    IF circuit THEN SSFinal(S)
    ELSE IF S.orch.attempt < MAX_ATTEMPTS
    THEN Logged([S EXCEPT !.orch.pc = "ss-sleep",
                          !.orch.sleepUntil =
                              now + calculateBackoff(S.orch.attempt - 1, BACKOFF_BASE_MS, j)],
                Slept(S.orch.attempt,
                      calculateBackoff(S.orch.attempt - 1, BACKOFF_BASE_MS, j)))
    ELSE SSFinal(S)

\* generate(): the catch block for the error err (status: its HTTP status).
SSCatch(S, err, status, j) ==
    SSRetry(Logged([S EXCEPT !.orch.lastError = err],
                   AttemptEnded(S.orch.attempt, err, status, NoContract)),
            err = "Circuit breaker", j)

\* generate(): attempt number att of the loop, up to its await.
SSAttempt(S, att, j) ==
    LET S0 == [S EXCEPT !.orch.attempt = att, !.orch.issued.single = @ + 1]
        S1 == Entry(S0, "main", SINGLE_SHOT_GENERATION)
    IN  CASE S1.k = "dispatch" -> [S1 EXCEPT !.orch.pc = "single"]
          [] S1.k = "reject" -> SSCatch(S1, "Circuit breaker", 0, j)
          [] OTHER -> SSCatch(S1, "Unknown provider", 0, j)

\* generate(config, log); when entered from generateEnhanced, the sections
\* array of that method is dead from then on.
generate(S, j) ==
    SSAttempt([S EXCEPT !.orch.best = 0, !.orch.bestAt = 0, !.orch.lastError = "",
                        !.orch.sections = <<>>,
                        !.orch.issued.generate = @ + 1], 1, j)

\* Mutant of BetterThanBest: a tie replaces the tracked attempt.
AtLeastBest(words, best) ==
    words >= best

\* generate(): the test that makes an attempt the tracked best one.
BetterThanBest(words, best) ==
    words > best

\* generate(): the acceptance test on a healed response.
Acceptable(r) ==
    r.words >= MIN_ACCEPTABLE_WORDS /\ r.long

\* Mutant of AcceptedResult: the attempts field is the maximum.
AcceptedResultMaxAttempts(att) ==
    [status |-> "returned", method |-> "single-shot", attempts |-> MAX_ATTEMPTS,
     content |-> att, error |-> ""]

\* generate(): the result returned for an accepted attempt.
AcceptedResult(att) ==
    [status |-> "returned", method |-> "single-shot", attempts |-> att,
     content |-> att, error |-> ""]

\* generate(): the response of the attempt arrived and was handed to healJSON.
SSResponse(S, r, j) ==
    LET att == S.orch.attempt
    IN  IF ~r.healed
        THEN SSRetry(Logged([S EXCEPT !.orch.lastError = "Parse failed"],
                            AttemptEnded(att, "Parse failed", 0, r)),
                     FALSE, j)
        ELSE LET S1 == IF BetterThanBest(r.words, S.orch.best)
                       THEN [S EXCEPT !.orch.best = r.words, !.orch.bestAt = att]
                       ELSE S
             IN  IF Acceptable(r)
                 THEN Logged([S1 EXCEPT !.orch.pc = "done",
                                        !.orch.result = AcceptedResult(att)],
                             AttemptEnded(att, "accepted", 0, r))
                 ELSE LET S2 == Logged([S1 EXCEPT !.orch.lastError = "Content too short"],
                                       AttemptEnded(att, "Content too short", 0, r))
                      IN  IF att < MAX_ATTEMPTS
                          THEN SSAttempt(S2, att + 1, j)
                          ELSE SSFinal(S2)

\* generateEnhanced: the final assembly and the staged result.
Assemble(S) ==
    [Report(Report(S, 90), 100) EXCEPT
        !.orch.pc = "done",
        !.orch.result = [status |-> "returned", method |-> "staged",
                         attempts |-> 1, content |-> 0, error |-> ""]]

\* The value reported before a stage is started.
StageProgress(stage) ==
    CASE stage = "faq" -> 60
      [] stage = "refs" -> 65
      [] stage = "intro" -> 75
      [] OTHER -> 0

\* generateEnhanced from the FAQ call on: each stage calls the gateway and
\* falls back to its placeholder when the call throws; the reference lookup
\* is made only with a serper key.
RECURSIVE MergeFrom(_, _)
MergeFrom(S, stages) ==
    IF stages = <<>> THEN Assemble(S)
    ELSE LET stage == Head(stages)
             S0 == IF StageProgress(stage) > 0 THEN Report(S, StageProgress(stage))
                   ELSE S
             S1 == Entry([S0 EXCEPT !.orch.issued.merge = @ + 1], "main",
                         SECTION_GENERATION)
         IN  IF stage = "refs"
             THEN IF S.orch.serper
                  THEN [S0 EXCEPT !.orch.pc = "refs", !.orch.refs = "searching"]
                  ELSE MergeFrom(S, Tail(stages))
             ELSE IF S1.k = "dispatch"
             THEN [S1 EXCEPT !.orch.pc = stage]
             ELSE MergeFrom([S1 EXCEPT !.orch.degraded = @ \cup {stage}],
                            Tail(stages))

StagesAfter(stage) ==
    CASE stage = "faq" -> <<"refs", "intro", "concl">>
      [] stage = "refs" -> <<"intro", "concl">>
      [] stage = "intro" -> <<"concl">>
      [] OTHER -> <<>>

\* Mutant of AfterSections: the merge starts without awaiting the lookup.
AfterSectionsNoAwait(S) == MergeFrom(S, MergeStages)

\* generateEnhanced after the batch loop: await youtubePromise, then merge.
AfterSections(S) ==
    IF S.orch.video = "searching"
    THEN [S EXCEPT !.orch.pc = "video"]
    ELSE MergeFrom(S, MergeStages)

\* Mutant of SectionsProgress: the share is taken of the 40 points up to
\* the FAQ stage.
SectionsProgressOfForty(completed, total) ==
    20 + (80 * completed + total) \div (2 * total)

\* 20 + Math.round((sections.length / outline.sections.length) * 35).
SectionsProgress(completed, total) ==
    20 + (70 * completed + total) \div (2 * total)

\* The section (1-based) a batch slot stands for in the batch starting at i.
SlotIndex(i, c) == IF c = "s1" THEN i ELSE i + 1

\* Mutant of BatchResults: the results in the order in which the calls settled.
BatchResultsAsSettled(S, last) ==
    LET n == S.orch.outline.n
        i == S.orch.i
    IN  IF i + 1 <= n
        THEN IF last = "s1" THEN <<"s2", "s1">> ELSE <<"s1", "s2">>
        ELSE <<"s1">>

\* Promise.all: the results in the order of the batch, whatever the order
\* in which the calls settled.
BatchResults(S, last) ==
    LET n == S.orch.outline.n
        i == S.orch.i
    IN  IF i + 1 <= n THEN <<"s1", "s2">> ELSE <<"s1">>

\* The entry the loop over batchResults pushes for the result of slot c.
SectionEntry(S, c) ==
    IF S.orch.slot[c] = "ok"
    THEN [idx |-> SlotIndex(S.orch.i, c), kind |-> "html"]
    ELSE [idx |-> SlotIndex(S.orch.i, c), kind |-> "placeholder"]

\* generateEnhanced once every promise of the batch is fulfilled.
CompleteBatch(S, last) ==
    LET order == BatchResults(S, last)
        pushed == [k \in 1..Len(order) |-> SectionEntry(S, order[k])]
        S0 == Logged([S EXCEPT !.orch.sections = @ \o pushed,
                               !.orch.slot = [c \in {"s1", "s2"} |-> "none"]],
                     BatchFulfilled(last))
        S1 == Report(S0, SectionsProgress(Len(S0.orch.sections), S.orch.outline.n))
    IN  IF S.orch.i + BATCH_SIZE <= S.orch.outline.n
        THEN [S1 EXCEPT !.orch.pc = "batchSleep",
                        !.orch.sleepUntil = now + BATCH_SLEEP_MS]
        ELSE AfterSections(S1)

\* generateSection for the section of slot c, up to its await: a section
\* without keyPoints / subsections throws while the prompt is built.
SectionStart(S, c) ==
    IF SlotIndex(S.orch.i, c) = S.orch.outline.bad
    THEN [S EXCEPT !.orch.slot[c] = "threw"]
    ELSE LET S1 == Entry([S EXCEPT !.orch.issued.section = @ + 1], c,
                         SECTION_GENERATION)
         IN  IF S1.k = "dispatch"
             THEN [S1 EXCEPT !.orch.slot[c] = "pending"]
             ELSE Logged([S1 EXCEPT !.orch.slot[c] = "fail"],
                         SectionSettled(c, SlotIndex(S.orch.i, c), "fail"))

\* The calls of a batch that are awaited no longer once Promise.all rejected.
Orphaned(slot) ==
    [c \in {"s1", "s2"} |-> IF slot[c] = "pending" THEN "orphan" ELSE "none"]

\* generateEnhanced: one iteration of the batch loop, up to its await.
IssueBatch(S, i, j) ==
    LET S0 == [S EXCEPT !.orch.i = i, !.orch.pc = "sections"]
        S1 == SectionStart(S0, "s1")
        S2 == IF i + 1 <= S.orch.outline.n THEN SectionStart(S1, "s2") ELSE S1
        st == S2.orch.slot
    IN  IF \E c \in {"s1", "s2"} : st[c] = "threw"
        THEN generate([S2 EXCEPT !.orch.slot = Orphaned(st)], j)
        ELSE IF \E c \in {"s1", "s2"} : st[c] = "pending"
        THEN S2
        ELSE CompleteBatch(S2, IF i + 1 <= S.orch.outline.n THEN "s2" ELSE "s1")

\* Mutant of AcceptOutline: one section fewer is enough.
AcceptOutlineOneFewer(r) ==
    r.kind = "response" /\ r.healed /\ r.n >= MIN_OUTLINE_SECTIONS - 1

\* generateContentOutline: the test on the healed response.
AcceptOutline(r) ==
    r.kind = "response" /\ r.healed /\ r.n >= MIN_OUTLINE_SECTIONS

\* Mutant of AfterOutline: a refused outline is asked for once more.
AfterOutlineAsksAgain(S, r, j) ==
    LET S1 == [S EXCEPT !.orch.resp = r]
        S2 == Report([S1 EXCEPT !.orch.outline = [n |-> r.n, bad |-> r.bad]], 15)
        S3 == IF S.orch.serper
              THEN [Report(S2, 18) EXCEPT !.orch.video = "searching"]
              ELSE S2
        S4 == Entry([S1 EXCEPT !.orch.issued.outline = @ + 1], "main",
                    OUTLINE_GENERATION)
    IN  IF AcceptOutline(r)
        THEN IssueBatch(Report(S3, 20), 1, j)
        ELSE IF S.orch.issued.outline < 2 /\ S4.k = "dispatch"
        THEN [S4 EXCEPT !.orch.pc = "outline"]
        ELSE generate(S1, j)

\* generateEnhanced once generateContentOutline returned for response r.
AfterOutline(S, r, j) ==
    LET S1 == [S EXCEPT !.orch.resp = r]
        S2 == Report([S1 EXCEPT !.orch.outline = [n |-> r.n, bad |-> r.bad]], 15)
        S3 == IF S.orch.serper
              THEN [Report(S2, 18) EXCEPT !.orch.video = "searching"]
              ELSE S2
    IN  IF AcceptOutline(r)
        THEN IssueBatch(Report(S3, 20), 1, j)
        ELSE generate(S1, j)

\* generateSection once its call settled: the word count test.
SectionResult(o, words) ==
    IF o.type = "ok" /\ ~(words < MIN_SECTION_WORDS) THEN "ok" ELSE "fail"

\* ------------------------------------------------------------------------
\* Orchestrator specification: one generateEnhanced request
\* ------------------------------------------------------------------------
OrchProviders == {"google", "openrouter", "other"}

\* The outcomes of a backend the pipelines tell apart: text, a failure
\* callLLM records (503) and one it does not (401).
OrchOutcomes == {HttpError(401), HttpError(503)}

Init ==
    /\ now = StartTime
    /\ provider \in OrchProviders
    /\ breaker = [p \in AllProviders |-> NewBreaker]
    /\ openedAt = [p \in AllProviders |-> 0]
    /\ calls = [c \in CallIds |-> IdleCall]
    /\ \E serper \in BOOLEAN : orch = [IdleOrch EXCEPT !.serper = serper]
    /\ ev = <<>>
    /\ applied = NoApplication

Here == [b |-> breaker[provider], calls |-> calls, orch |-> orch, k |-> "none",
         ev |-> <<>>]

\* The new state is S.
Becomes(S) ==
    /\ breaker' = [breaker EXCEPT ![provider] = S.b]
    /\ calls' = S.calls
    /\ orch' = S.orch
    /\ ev' = S.ev
    /\ UNCHANGED <<now, provider, openedAt, applied>>

\* A failure is recorded only below the bound of the failure counter.
MayRecord(o) == RecordsFailure(o) => breaker[provider].failures < MaxFailures

\* Time passes between two turns of the event loop.  The clock starts with
\* the request and is followed up to the horizon, beyond it for as long as a
\* sleep of the request has not ended; once the request has ended, for as long as a
\* call or a lookup it left behind is outstanding.
OrchTick ==
    /\ orch.pc # "idle"
    /\ \/ now < MaxOrchTicks * TickMs
       \/ orch.pc \in {"batchSleep", "ss-sleep"} /\ now < orch.sleepUntil
    /\ orch.pc \in {"done", "failed"}
       => \/ \E c \in CallIds : calls[c].state = "inflight"
          \/ orch.video = "searching"
    /\ now' = now + TickMs
    /\ ev' = <<>>
    /\ UNCHANGED <<breaker, openedAt, calls, provider, orch, applied>>

\* generateEnhanced is called: the outline call is made.
Start(j) ==
    /\ orch.pc = "idle"
    /\ LET S1 == Entry(Report([Here EXCEPT !.orch.issued.outline = @ + 1], 10),
                       "main", OUTLINE_GENERATION)
       IN  IF S1.k = "dispatch"
           THEN Becomes([S1 EXCEPT !.orch.pc = "outline"])
           ELSE Becomes(AfterOutline(S1, CallFailed, j))

\* The outline call settles with outcome o and, when it is text, content r.
OutlineRespond(o, r, j) ==
    /\ orch.pc = "outline"
    /\ calls["main"].state = "inflight"
    /\ MayRecord(o)
    /\ Becomes(AfterOutline(Settle(Here, "main", o), r, j))

\* The video lookup settles: a video was found, or the lookup threw (or
\* found nothing: youtubeVideo stays null either way).  generateEnhanced goes
\* on when it was waiting for it.
VideoRespond(res) ==
    /\ orch.video = "searching"
    /\ LET S1 == Logged([Here EXCEPT !.orch.video = res], LookedUp("video", res))
       IN  IF orch.pc = "video"
           THEN Becomes(MergeFrom(S1, MergeStages))
           ELSE Becomes(S1)

\* The reference lookup settles: references were found, or the lookup threw.
RefsRespond(res) ==
    /\ orch.pc = "refs"
    /\ LET S1 == Logged([Here EXCEPT !.orch.refs = res], LookedUp("refs", res))
       IN  Becomes(MergeFrom(S1, StagesAfter("refs")))

\* The call of a merge stage (FAQ, introduction, conclusion) settles.
MergeRespond(o) ==
    /\ orch.pc \in {"faq", "intro", "concl"}
    /\ calls["main"].state = "inflight"
    /\ MayRecord(o)
    /\ LET S1 == Settle(Here, "main", o)
           S2 == IF o.type = "ok" THEN S1
                 ELSE [S1 EXCEPT !.orch.degraded = @ \cup {orch.pc}]
       IN  Becomes(MergeFrom(S2, StagesAfter(orch.pc)))

\* The call of a single-shot attempt settles.
SingleRespond(o, r, j) ==
    /\ orch.pc = "single"
    /\ calls["main"].state = "inflight"
    /\ MayRecord(o)
    /\ Becomes(SSResponse(Settle(Here, "main", o), r, j))

\* The call of a single-shot attempt throws.
SingleFails(o, j) ==
    /\ orch.pc = "single"
    /\ calls["main"].state = "inflight"
    /\ MayRecord(o)
    /\ Becomes(SSCatch(Settle(Here, "main", o), Thrown(o), o.status, j))

\* Mutant of AfterSection: a failed call ends the wait for the batch.
AfterSectionFailFast(S, c, res) ==
    IF orch.slot[c] = "orphan"
    THEN [S EXCEPT !.orch.slot[c] = "none"]
    ELSE LET S1 == Logged([S EXCEPT !.orch.slot[c] = res],
                          SectionSettled(c, SlotIndex(orch.i, c), res))
         IN  IF res # "fail" /\ \E d \in {"s1", "s2"} : S1.orch.slot[d] = "pending"
             THEN S1
             ELSE CompleteBatch(S1, c)

\* What follows the settling of section call c with result res.
AfterSection(S, c, res) ==
    IF orch.slot[c] = "orphan"
    THEN [S EXCEPT !.orch.slot[c] = "none"]
    ELSE LET S1 == Logged([S EXCEPT !.orch.slot[c] = res],
                          SectionSettled(c, SlotIndex(orch.i, c), res))
         IN  IF \E d \in {"s1", "s2"} : S1.orch.slot[d] = "pending"
             THEN S1
             ELSE CompleteBatch(S1, c)

\* A section call settles with outcome o and, when it is text, that many words.
SectionRespond(c, o, words) ==
    /\ calls[c].state = "inflight"
    /\ orch.slot[c] \in {"pending", "orphan"}
    /\ MayRecord(o)
    /\ Becomes(AfterSection(Settle(Here, c, o), c, SectionResult(o, words)))

\* The abort timer of a call fires: controller.abort().  A fetch that was
\* given the signal rejects with AbortError; callGemini goes on waiting.
Due(c) ==
    /\ calls[c].state = "inflight"
    /\ ~calls[c].aborted
    /\ now >= calls[c].start + calls[c].timeoutMs

Ignored(c) ==
    [Here EXCEPT !.calls[c].aborted = TRUE]

SectionTimeout(c) ==
    /\ c \in {"s1", "s2"}
    /\ Due(c)
    /\ IF HonoursSignal(provider)
       THEN /\ MayRecord(AbortError)
            /\ Becomes(AfterSection(Settle(Here, c, AbortError), c, "fail"))
       ELSE Becomes(Ignored(c))

MainTimeout(j) ==
    /\ Due("main")
    /\ IF HonoursSignal(provider)
       THEN /\ MayRecord(AbortError)
            /\ LET S1 == Settle(Here, "main", AbortError)
               IN  CASE orch.pc = "outline" -> Becomes(AfterOutline(S1, CallFailed, j))
                     [] orch.pc = "single" ->
                          Becomes(SSCatch(S1, Thrown(AbortError), 0, j))
                     [] OTHER ->
                          Becomes(MergeFrom([S1 EXCEPT !.orch.degraded = @ \cup {orch.pc}],
                                            StagesAfter(orch.pc)))
       ELSE Becomes(Ignored("main"))

\* The sleep between two batches ends: the next batch is issued.
BatchWake(j) ==
    /\ orch.pc = "batchSleep"
    /\ now >= orch.sleepUntil
    /\ Becomes(IssueBatch(Here, orch.i + BATCH_SIZE, j))

\* The backoff sleep of generate() ends: the next attempt is made.
SingleWake(j) ==
    /\ orch.pc = "ss-sleep"
    /\ now >= orch.sleepUntil
    /\ Becomes(SSAttempt(Here, orch.attempt + 1, j))

Next ==
    \/ OrchTick
    \/ \E j \in Jitters : Start(j)
    \/ \E r \in OutlineResponses, j \in Jitters : OutlineRespond(OkOutcome, r, j)
    \/ \E o \in OrchOutcomes, j \in Jitters : OutlineRespond(o, CallFailed, j)
    \/ \E c \in {"s1", "s2"}, w \in SectionWords : SectionRespond(c, OkOutcome, w)
    \/ \E c \in {"s1", "s2"}, o \in OrchOutcomes : SectionRespond(c, o, 0)
    \/ \E c \in {"s1", "s2"} : SectionTimeout(c)
    \/ \E o \in OrchOutcomes \cup {OkOutcome} : MergeRespond(o)
    \/ \E res \in {"found", "failed"} : VideoRespond(res)
    \/ \E res \in {"found", "failed"} : RefsRespond(res)
    \/ \E r \in SingleResponses, j \in Jitters : SingleRespond(OkOutcome, r, j)
    \/ \E o \in OrchOutcomes, j \in Jitters : SingleFails(o, j)
    \/ \E j \in Jitters : MainTimeout(j)
    \/ \E j \in Jitters : BatchWake(j)
    \/ \E j \in Jitters : SingleWake(j)

Spec == Init /\ [][Next]_vars

\* The request under the scheduling of the event loop: a callback that is
\* ready runs, timers fire, time passes, and every call and lookup settles.
\* The steps are those of Next for a backend that answers with text or with
\* status 503, without jitter, for these outline and single-shot responses.
FairOutlines ==
    { OutlineResponse(OutlineAsPrompted, MIN_OUTLINE_SECTIONS, 0) }
    \cup { OutlineResponse(OutlineWithBody, MIN_OUTLINE_SECTIONS, k) : k \in {0, 2, 5} }
FairSingles ==
    { r \in SingleResponses : r.words \in {0, 2200, 3000} /\ (r.healed => r.long) }

NextFair ==
    \/ OrchTick
    \/ Start(0)
    \/ \E r \in FairOutlines : OutlineRespond(OkOutcome, r, 0)
    \/ OutlineRespond(HttpError(503), CallFailed, 0)
    \/ \E c \in {"s1", "s2"} : SectionRespond(c, OkOutcome, 300)
    \/ \E c \in {"s1", "s2"} : SectionRespond(c, HttpError(503), 0)
    \/ \E c \in {"s1", "s2"} : SectionTimeout(c)
    \/ \E o \in {OkOutcome, HttpError(503)} : MergeRespond(o)
    \/ \E res \in {"found", "failed"} : VideoRespond(res)
    \/ \E res \in {"found", "failed"} : RefsRespond(res)
    \/ \E r \in FairSingles : SingleRespond(OkOutcome, r, 0)
    \/ SingleFails(HttpError(503), 0)
    \/ MainTimeout(0)
    \/ BatchWake(0)
    \/ SingleWake(0)

SpecFair == Init /\ [][NextFair]_vars /\ WF_vars(NextFair)

\* ------------------------------------------------------------------------
\* Properties of the pipelines (Spec)
\* ------------------------------------------------------------------------
\* The outline phase ended without an outline of at least 5 sections: the
\* call failed, the response was not healed, or it held too few sections.
OutlineRefused ==
    /\ orch.resp.kind # "none"
    /\ ~(orch.resp.kind = "response" /\ orch.resp.healed
         /\ orch.resp.n >= MIN_OUTLINE_SECTIONS)

\* The outline phase ended with a healed outline of at least 5 sections.
OutlineGranted ==
    /\ orch.resp.kind = "response" /\ orch.resp.healed
    /\ orch.resp.n >= MIN_OUTLINE_SECTIONS

\* C9: when the outline phase ends without an outline of at least 5 sections,
\* no section call and no merge call is ever made, the outline call is not
\* made again, and a result that is returned has method single-shot.
C9_RefusedOutlineFallsBack ==
    OutlineRefused
    => /\ orch.issued.section = 0
       /\ orch.issued.merge = 0
       /\ orch.issued.outline = 1
       /\ orch.pc \in {"single", "ss-sleep", "done", "failed"}
       /\ orch.result.status = "returned" => orch.result.method = "single-shot"

\* C9 witness: the outline held fewer than 5 sections and the run returned a
\* single-shot result.
C9_Witness ==
    /\ orch.resp.kind = "response" /\ orch.resp.healed
    /\ orch.resp.n < MIN_OUTLINE_SECTIONS
    /\ orch.result.status = "returned"
    /\ orch.result.method = "single-shot"

\* C10 as stated: a run whose outline was accepted with N >= 5 sections ends
\* by returning a staged result with attempts 1 whose sections array holds N
\* entries, entry i being that of outline section i (the html of the call or
\* the placeholder of a failed call).
C10_StagedDespiteSectionFailures ==
    OutlineGranted /\ orch.pc \in {"done", "failed"}
    => /\ orch.result.status = "returned"
       /\ orch.result.method = "staged"
       /\ orch.result.attempts = 1
       /\ Len(orch.sections) = orch.resp.n
       /\ \A k \in 1..Len(orch.sections) : orch.sections[k].idx = k

\* C10 on outlines whose sections all carry the arrays generateSection reads:
\* the run ends with a staged result of N entries in outline order, whichever
\* section calls fail.
C10_WellFormedOutlineStaged ==
    OutlineGranted /\ orch.resp.bad = 0 /\ orch.pc \in {"done", "failed"}
    => /\ orch.result.status = "returned"
       /\ orch.result.method = "staged"
       /\ orch.result.attempts = 1
       /\ Len(orch.sections) = orch.resp.n
       /\ \A k \in 1..Len(orch.sections) : orch.sections[k].idx = k

\* The result the batch completed in this step holds for call slot d: the
\* one with which its promise settled in this step, or the one stored when
\* it settled in an earlier turn.
SettledResult(d) ==
    IF \E n \in DOMAIN ev' : ev'[n].kind = "section" /\ ev'[n].call = d
    THEN (CHOOSE e \in { ev'[n] : n \in DOMAIN ev' } :
              e.kind = "section" /\ e.call = d).res
    ELSE orch.slot[d]

\* The entry of the sections array that belongs to call slot d of the batch
\* starting at section i.
EntryOf(i, d) ==
    [idx |-> SlotIndex(i, d),
     kind |-> IF SettledResult(d) = "ok" THEN "html" ELSE "placeholder"]

\* C11: when a batch is fulfilled, the sections array grows by the entries of
\* the batch in outline order, the entry at position i being the result of
\* the call for outline section i (its html, or the placeholder when that
\* call failed), whichever call of the batch settled last.
C11_BatchResultsPositional ==
    [][\A n \in DOMAIN ev' :
          ev'[n].kind = "batch"
          => LET i == orch'.i
                 expected == IF i + 1 <= orch'.outline.n
                             THEN <<EntryOf(i, "s1"), EntryOf(i, "s2")>>
                             ELSE <<EntryOf(i, "s1")>>
             IN  /\ Len(orch.sections) = i - 1
                 /\ orch'.sections = orch.sections \o expected
                 /\ \A k \in 1..Len(orch'.sections) : orch'.sections[k].idx = k]_vars

\* C11 witness: the first batch has just been fulfilled by the call for
\* section 1, which settled after the call for section 2 had failed; the
\* html of section 1 stands before the placeholder of section 2.
C11_Witness ==
    /\ \E n \in DOMAIN ev : ev[n].kind = "batch" /\ ev[n].call = "s1"
    /\ \E n \in DOMAIN ev : ev[n].kind = "section" /\ ev[n].call = "s1"
                              /\ ev[n].res = "ok"
    /\ Len(orch.sections) = BATCH_SIZE
    /\ orch.sections[1] = [idx |-> 1, kind |-> "html"]
    /\ orch.sections[2] = [idx |-> 2, kind |-> "placeholder"]

\* C27: the outline phase goes on to the sections only when healJSON reported
\* success on the outline response, which it does only for a response that
\* holds a non-empty htmlContent member; an outline response that is valid
\* JSON with 5 or more sections but without that member is refused: no
\* section call and no merge call is made, and the run goes on in the
\* single-shot pipeline.
C27_OutlineNeedsBody ==
    /\ orch.outline.n > 0 \/ orch.issued.section > 0
       => /\ orch.resp.kind = "response"
          /\ healJSON(orch.resp.text).success
          /\ Positions(orch.resp.text, {"h"}) # {}
    /\ orch.resp.kind = "response" /\ healJSON(orch.resp.text).success
       => Positions(orch.resp.text, {"h"}) # {}
    /\ /\ orch.resp.kind = "response"
       /\ Parses(orch.resp.text)
       /\ orch.resp.n >= MIN_OUTLINE_SECTIONS
       /\ Positions(orch.resp.text, {"h"}) = {}
       => /\ orch.outline.n = 0
          /\ orch.issued.section = 0 /\ orch.issued.merge = 0
          /\ orch.issued.single >= 1
          /\ orch.pc \in {"single", "ss-sleep", "done", "failed"}
          /\ orch.result.status = "returned" => orch.result.method = "single-shot"

\* C27 witness: the outline response was the object the outline prompt asks
\* for, with 5 sections and no htmlContent, and the run returned a
\* single-shot result.
C27_Witness ==
    /\ orch.resp.kind = "response"
    /\ orch.resp.text = OutlineAsPrompted
    /\ orch.resp.n = MIN_OUTLINE_SECTIONS
    /\ orch.result.status = "returned"
    /\ orch.result.method = "single-shot"

\* C22 as stated: control passes to the single-shot pipeline only because the
\* outline phase failed; once an outline was accepted, nothing that happens
\* in a later phase makes the run enter generate().
C22_FallbackOnlyFromOutline ==
    orch.issued.generate > 0 \/ orch.issued.single > 0
    => OutlineRefused /\ orch.issued.section = 0

\* An auxiliary call of the accepted outline's run failed: the FAQ, the
\* introduction or the conclusion call (its stage was given the placeholder),
\* the video lookup or the reference lookup.
AuxiliaryFailed ==
    orch.degraded # {} \/ orch.video = "failed" \/ orch.refs = "failed"

\* C25 as stated: once the outline is accepted, a run in which an auxiliary
\* call failed still ends by returning a staged result.
C25_AuxiliaryFailuresContained ==
    OutlineGranted /\ AuxiliaryFailed
    => /\ orch.issued.generate = 0
       /\ orch.pc \in {"done", "failed"}
          => orch.result.status = "returned" /\ orch.result.method = "staged"

\* C25 on outlines whose sections all carry the arrays generateSection
\* reads: whichever auxiliary calls fail, generate() is not entered and the
\* run ends with a staged result.
C25_WellFormedOutlineContained ==
    OutlineGranted /\ orch.resp.bad = 0 /\ AuxiliaryFailed
    => /\ orch.issued.generate = 0
       /\ orch.pc \in {"done", "failed"}
          => orch.result.status = "returned" /\ orch.result.method = "staged"

\* C23: section calls are issued in batches of 2 in outline order.  A step
\* that issues section calls finds no section call outstanding or awaited,
\* issues at most 2 of them and starts at the section after the last one
\* that has an entry; at most 2 section calls are ever in flight; and a step
\* in which one call of a batch fails or times out while its sibling is
\* awaited leaves the sibling's call, its deadline and its slot as they
\* were, the batch waiting for it, and a sibling that succeeded has its html
\* in the sections array when the batch is fulfilled.
C23_BatchesOfTwoInOrder ==
    [][/\ orch'.issued.section > orch.issued.section
          => /\ \A c \in {"s1", "s2"} :
                    calls[c].state # "inflight" /\ orch.slot[c] = "none"
             /\ orch'.issued.section - orch.issued.section <= BATCH_SIZE
             /\ orch'.i = Len(orch.sections) + 1
             /\ orch'.i = 1 \/ orch'.i = orch.i + BATCH_SIZE
       /\ Cardinality({ c \in {"s1", "s2"} : calls'[c].state = "inflight" })
              <= BATCH_SIZE
       /\ \A c, d \in {"s1", "s2"} :
             /\ c # d
             /\ orch.slot[c] = "pending" /\ orch.slot[d] = "pending"
             /\ \E n \in DOMAIN ev' :
                    ev'[n].kind = "section" /\ ev'[n].call = c /\ ev'[n].res = "fail"
             => /\ calls'[d] = calls[d]
                /\ orch'.slot[d] = "pending"
                /\ orch'.slot[c] = "fail"
                /\ orch'.pc = "sections"
                /\ orch'.sections = orch.sections
       /\ \A d \in {"s1", "s2"} :
             /\ \E n \in DOMAIN ev' : ev'[n].kind = "batch"
             /\ SlotIndex(orch'.i, d) <= orch'.outline.n
             /\ SettledResult(d) = "ok"
             => orch'.sections[SlotIndex(orch'.i, d)].kind = "html"]_vars

\* C23 witness: in the second batch the call for section 3 has failed while
\* the call for section 4 is still in flight and awaited.
C23_Witness ==
    /\ orch.pc = "sections"
    /\ orch.i = 1 + BATCH_SIZE
    /\ Len(orch.sections) = BATCH_SIZE
    /\ orch.slot["s1"] = "fail"
    /\ orch.slot["s2"] = "pending"
    /\ calls["s2"].state = "inflight"

\* The values passed to onStageProgress in a step, in call order.
IsProgress(e) == e.kind = "progress"
ProgressOf(log) == SelectSeq(log, IsProgress)

\* C29: the values passed to the progress callback never decrease; the
\* value reported after a batch is 20 + round(35 * completed / total),
\* completed being the number of entries (html or placeholder) of the
\* sections array; 100 is reported in the step that returns the staged
\* result and in no other; and nothing is reported once generate() was
\* entered.
C29_ProgressMonotoneAndExact ==
    [][LET P == ProgressOf(ev')
           total == orch'.outline.n
           completed == Min(orch'.i + BATCH_SIZE - 1, total)
       IN  /\ \A k \in 1..Len(P) :
                 /\ P[k].pct >= (IF k = 1 THEN orch.progress ELSE P[k - 1].pct)
                 /\ P[k].pct = 100 => k = Len(P)
           /\ orch'.progress = IF P = <<>> THEN orch.progress ELSE P[Len(P)].pct
           /\ \A n \in DOMAIN ev' :
                 ev'[n].kind = "batch"
                 => /\ n + 1 \in DOMAIN ev'
                    /\ ev'[n + 1].kind = "progress"
                    /\ Len(orch'.sections) = completed
                    /\ LET share == ev'[n + 1].pct - 20
                       IN  /\ 2 * total * share <= 70 * completed + total
                           /\ 70 * completed + total < 2 * total * (share + 1)
           /\ (\E k \in 1..Len(P) : P[k].pct = 100)
              <=> /\ orch.pc # "done"
                  /\ orch'.pc = "done"
                  /\ orch'.result.status = "returned"
                  /\ orch'.result.method = "staged"
           /\ orch.issued.generate > 0 => P = <<>>
           /\ \A n, m \in DOMAIN ev' :
                 ev'[n].kind \in {"attempt", "sleep"} /\ n < m
                 => ev'[m].kind # "progress"]_vars

\* C29 witness: a staged run with both lookups, its sections array holding
\* html and placeholders, has just returned and reported 100.
C29_Witness ==
    /\ orch.pc = "done"
    /\ orch.result.method = "staged"
    /\ orch.progress = 100
    /\ orch.serper
    /\ orch.refs # "none"
    /\ \E k \in 1..Len(orch.sections) : orch.sections[k].kind = "placeholder"
    /\ \E k \in 1..Len(orch.sections) : orch.sections[k].kind = "html"
    /\ \E n \in DOMAIN ev : ev[n].kind = "progress" /\ ev[n].pct = 100

\* The outstanding I/O operations of the request.
SectionCallsInFlight == { c \in {"s1", "s2"} : calls[c].state = "inflight" }
OtherInFlight ==
    { x \in {"main", "video", "refs"} :
        \/ x = "main" /\ calls["main"].state = "inflight"
        \/ x = "video" /\ orch.video = "searching"
        \/ x = "refs" /\ orch.refs = "searching" }

\* C26 as stated: the phases run one after another and only the section
\* calls of one batch run together: while section calls are in flight they
\* are at most 2, they are those of the current batch, and no call or lookup
\* of another phase is outstanding; otherwise at most one call or lookup is
\* outstanding.
C26_PhasesStrictlySequential ==
    /\ Cardinality(SectionCallsInFlight) <= BATCH_SIZE
    /\ \A c \in SectionCallsInFlight : orch.pc = "sections" /\ orch.slot[c] = "pending"
    /\ SectionCallsInFlight # {} => OtherInFlight = {}
    /\ Cardinality(OtherInFlight) <= 1

\* C26 for the operations the run waits for: the video lookup apart, which
\* runs beside the sections and is awaited before the FAQ call, the awaited
\* section calls of a batch never run beside the outline, FAQ, reference,
\* introduction or conclusion operation, and these never run beside each
\* other.
C26_AwaitedPhasesSequential ==
    /\ (\E c \in {"s1", "s2"} : orch.slot[c] = "pending")
       => OtherInFlight \subseteq {"video"} /\ orch.pc = "sections"
    /\ Cardinality(OtherInFlight \ {"video"}) <= 1
    /\ orch.pc \in {"outline", "faq", "refs", "intro", "concl"}
       => orch.video # "searching" /\ SectionCallsInFlight = {}
    /\ orch.pc = "sections"
       => \A c \in SectionCallsInFlight : orch.slot[c] = "pending"

\* Both section calls of a batch and the video lookup are outstanding.
C26_Witness ==
    /\ orch.pc = "sections"
    /\ SectionCallsInFlight = {"s1", "s2"}
    /\ \A c \in {"s1", "s2"} : orch.slot[c] = "pending"
    /\ orch.video = "searching"

\* The request has ended: a result was returned or a terminal error raised.
Terminated ==
    /\ orch.pc \in {"done", "failed"}
    /\ orch.result.status \in {"returned", "threw"}

\* C28: when every ready callback runs and every call and lookup settles, the
\* request ends by returning a result or raising a terminal error; at every
\* moment generate() has been entered at most once, the staged pipeline has
\* made at most N + 4 gateway calls for an accepted outline of N sections
\* (the outline call alone when none was accepted), and the single-shot
\* pipeline at most 3.
C28_TerminatesWithinBudget ==
    /\ <>Terminated
    /\ [](/\ orch.issued.generate <= 1
          /\ orch.issued.outline <= 1
          /\ orch.issued.section <= orch.outline.n
          /\ orch.issued.merge <= 3
          /\ orch.issued.outline + orch.issued.section + orch.issued.merge
                <= orch.outline.n + 4
          /\ orch.issued.single <= MAX_ATTEMPTS
          /\ orch.issued.generate = 0 => orch.issued.single = 0)

\* C28 witness: the request ended after 1 + 5 + 3 staged calls.
C28_Witness ==
    /\ Terminated
    /\ orch.outline.n = MIN_OUTLINE_SECTIONS
    /\ orch.issued.outline + orch.issued.section + orch.issued.merge
          = MIN_OUTLINE_SECTIONS + 4
    /\ orch.result.method = "staged"

\* ------------------------------------------------------------------------
\* Single-shot specification: one request that enters generate() directly.
\* ev is the history of the whole request: the attempts and the sleeps of
\* generate() in program order.
\* ------------------------------------------------------------------------
\* The breaker states earlier requests can have left behind for the provider.
InitBreakers ==
    { NewBreaker,
      [failures |-> FAILURE_THRESHOLD - 1, lastFailure |-> StartTime, isOpen |-> FALSE],
      [failures |-> FAILURE_THRESHOLD, lastFailure |-> StartTime, isOpen |-> TRUE] }

InitSingle ==
    /\ now = StartTime
    /\ provider \in OrchProviders
    /\ \E b \in InitBreakers :
          breaker = [p \in AllProviders |-> IF p = provider THEN b ELSE NewBreaker]
    /\ openedAt = [p \in AllProviders |-> 0]
    /\ calls = [c \in CallIds |-> IdleCall]
    /\ orch = IdleOrch
    /\ ev = <<>>
    /\ applied = NoApplication

\* The new state is S, and the history of the turn is added to that of the
\* request.
Keeps(S) ==
    /\ breaker' = [breaker EXCEPT ![provider] = S.b]
    /\ calls' = S.calls
    /\ orch' = S.orch
    /\ ev' = ev \o S.ev
    /\ UNCHANGED <<now, provider, openedAt, applied>>

SgTick ==
    /\ now < MaxSingleTicks * TickMs
    /\ orch.pc \notin {"done", "failed"}
    /\ now' = now + TickMs
    /\ UNCHANGED <<breaker, openedAt, calls, provider, orch, ev, applied>>

\* generate() is called.
SgStart(j) ==
    /\ orch.pc = "idle"
    /\ Keeps(generate(Here, j))

\* The call of the attempt returns text with content r.
SgRespond(r, j) ==
    /\ orch.pc = "single"
    /\ calls["main"].state = "inflight"
    /\ Keeps(SSResponse(Settle(Here, "main", OkOutcome), r, j))

\* The call of the attempt throws.
SgFails(o, j) ==
    /\ orch.pc = "single"
    /\ calls["main"].state = "inflight"
    /\ MayRecord(o)
    /\ Keeps(SSCatch(Settle(Here, "main", o), Thrown(o), o.status, j))

\* The abort timer of the attempt's call fires.
SgTimeout(j) ==
    /\ orch.pc = "single"
    /\ Due("main")
    /\ IF HonoursSignal(provider)
       THEN /\ MayRecord(AbortError)
            /\ Keeps(SSCatch(Settle(Here, "main", AbortError), Thrown(AbortError), 0, j))
       ELSE Keeps(Ignored("main"))

\* The backoff sleep ends: the next attempt is made.
SgWake(j) ==
    /\ orch.pc = "ss-sleep"
    /\ now >= orch.sleepUntil
    /\ Keeps(SSAttempt(Here, orch.attempt + 1, j))

\* A call that another request made to the same provider fails with
\* outcome o: the provider's breaker is shared by every caller of callLLM.
SgOther(o) ==
    /\ orch.pc \notin {"idle", "done", "failed"}
    /\ MayRecord(o)
    /\ breaker' = [breaker EXCEPT ![provider] = BreakerAfter(@, o, now)]
    /\ UNCHANGED <<now, openedAt, calls, provider, orch, ev, applied>>

NextSingle ==
    \/ SgTick
    \/ \E j \in Jitters : SgStart(j)
    \/ \E r \in SingleShotResponses, j \in Jitters : SgRespond(r, j)
    \/ \E o \in OrchOutcomes, j \in Jitters : SgFails(o, j)
    \/ \E j \in Jitters : SgTimeout(j)
    \/ \E j \in Jitters : SgWake(j)

SpecSingle == InitSingle /\ [][NextSingle]_vars

\* The same request while other requests use the provider.
NextShared ==
    \/ NextSingle
    \/ SgOther(HttpError(503))

SpecShared == InitSingle /\ [][NextShared]_vars

\* ------------------------------------------------------------------------
\* Properties of the single-shot pipeline (SpecSingle)
\* ------------------------------------------------------------------------
\* The attempts of the request so far, in order.
Attempts == SelectSeq(ev, LAMBDA e : e.kind = "attempt")
Ended == orch.pc \in {"done", "failed"}

\* The attempt of history record e got a healed response that passes the
\* acceptance test of the claim: at least 2500 words and a long body.
Passes(e) ==
    e.kind = "attempt" /\ e.healed /\ e.words >= MIN_ACCEPTABLE_WORDS /\ e.long
NoneAccepted == \A n \in DOMAIN ev : ~Passes(ev[n])

\* The attempts whose response was healed, and the one of them the claim
\* calls best: the highest word count, the earliest on ties.
HealedAttempts == { n \in DOMAIN Attempts : Attempts[n].healed }
BestAttempt ==
    CHOOSE n \in HealedAttempts :
        \A m \in HealedAttempts :
            \/ Attempts[m].words < Attempts[n].words
            \/ Attempts[m].words = Attempts[n].words /\ n <= m

\* C12: one invocation of the single-shot pipeline makes at most 3 attempts
\* and at most 3 calls of the gateway, whatever the outcomes of the calls.
C12_AtMostThreeAttempts ==
    /\ orch.attempt <= MAX_ATTEMPTS
    /\ orch.issued.single <= MAX_ATTEMPTS
    /\ Len(Attempts) <= MAX_ATTEMPTS
    /\ \A n \in DOMAIN Attempts : Attempts[n].att = n

\* C12 witness: the run ended after three attempts that failed with a call
\* error, an unparsable response and too-short content.
C12_Witness ==
    /\ Ended /\ Len(Attempts) = MAX_ATTEMPTS
    /\ orch.issued.single = MAX_ATTEMPTS
    /\ Attempts[1].res = "http-error"
    /\ Attempts[2].res = "Parse failed"
    /\ Attempts[3].res = "Content too short"

\* C13: the first attempt k whose healed response has at least 2500 words
\* and a body of more than 5000 characters ends the run at once: it is the
\* last thing the request does (no later attempt, call or sleep), and the
\* result is returned with that attempt's content, attempts = k and method
\* single-shot.
C13_FirstAcceptableEndsRun ==
    \A n \in DOMAIN ev :
        Passes(ev[n])
        => /\ n = Len(ev)
           /\ orch.pc = "done"
           /\ orch.result = [status |-> "returned", method |-> "single-shot",
                             attempts |-> ev[n].att, content |-> ev[n].att,
                             error |-> ""]
           /\ orch.issued.single = ev[n].att
           /\ calls["main"].state = "idle"

\* C13 witness: attempts with 1200, 1800 and then 3000 words returned the
\* third attempt's content with attempts = 3.
C13_Witness ==
    /\ Len(Attempts) = 3
    /\ Attempts[1].words = 1200 /\ Attempts[2].words = 1800
    /\ Attempts[3].words = 3000 /\ Attempts[3].long
    /\ orch.result.status = "returned"
    /\ orch.result.attempts = 3 /\ orch.result.content = 3

\* C14: when the run ended and no attempt was accepted, and the highest word
\* count among the attempts whose response was healed reaches the absolute
\* floor (2000), the run returns as a single-shot result the content of the
\* attempt with that word count, the earliest one on ties.
C14_DegradedReturnsBest ==
    Ended /\ NoneAccepted /\ HealedAttempts # {}
    /\ Attempts[BestAttempt].words >= ABSOLUTE_FLOOR_WORDS
    => /\ orch.result.status = "returned"
       /\ orch.result.method = "single-shot"
       /\ orch.result.content = BestAttempt
       /\ orch.best = Attempts[BestAttempt].words

\* C14 witness: three attempts below the acceptance threshold with 1800, 2000
\* and 2000 words; the second one is returned.
C14_Witness ==
    /\ Ended /\ Len(Attempts) = 3
    /\ Attempts[1].words = 1800 /\ Attempts[2].words = ABSOLUTE_FLOOR_WORDS
    /\ Attempts[3].words = ABSOLUTE_FLOOR_WORDS
    /\ orch.result.status = "returned" /\ orch.result.content = 2

\* C15: when the run ended, no attempt was accepted and no healed attempt
\* reached the absolute floor, the run raises a terminal error that carries
\* the error of the last attempt made.
C15_TerminalErrorCarriesLast ==
    Ended /\ NoneAccepted
    /\ (HealedAttempts = {} \/ Attempts[BestAttempt].words < ABSOLUTE_FLOOR_WORDS)
    => /\ Len(Attempts) >= 1
       /\ orch.result.status = "threw"
       /\ orch.result.error = Attempts[Len(Attempts)].res
       /\ orch.result.error # ""

\* C15 witness: a call error, then an unparsable response, then too-short
\* content of 1800 words: the terminal error carries the too-short message.
C15_Witness ==
    /\ Ended /\ Len(Attempts) = 3
    /\ Attempts[1].res = "http-error" /\ Attempts[2].res = "Parse failed"
    /\ Attempts[3].words = 1800
    /\ orch.result.status = "threw"
    /\ orch.result.error = "Content too short"

\* C16: an attempt that is rejected because the breaker is open is the last
\* thing the request does: no call of the gateway and no backoff sleep
\* follows it, whichever attempt it is.
C16_BreakerOpenShortCircuits ==
    \A n \in DOMAIN ev :
        ev[n].kind = "attempt" /\ ev[n].res = "Circuit breaker"
        => /\ n = Len(ev)
           /\ Ended
           /\ orch.issued.single = ev[n].att
           /\ calls["main"].state = "idle"

\* C16 witness: attempt 1 failed with status 503 and opened the breaker, the
\* pipeline slept, and attempt 2 was rejected by the open breaker.
C16_Witness ==
    /\ Len(ev) = 3
    /\ ev[1].kind = "attempt" /\ ev[1].status = 503
    /\ ev[2].kind = "sleep"
    /\ ev[3].kind = "attempt" /\ ev[3].att = 2 /\ ev[3].res = "Circuit breaker"
    /\ Ended

\* C17 as stated: an attempt that fails with a fatal gateway error (breaker
\* open, unknown provider, a 4xx status other than 429) is the last thing the
\* request does, and the request ends by raising.
C17_FatalRaisedWithoutRetry ==
    \A n \in DOMAIN ev :
        /\ ev[n].kind = "attempt"
        /\ \/ ev[n].res \in {"Circuit breaker", "Unknown provider"}
           \/ ev[n].res = "http-error" /\ ev[n].status \in 400..499 /\ ev[n].status # 429
        => /\ n = Len(ev)
           /\ Ended
           /\ orch.result.status = "threw"

\* The delays calculateBackoff(attempt - 1, 2000) can return.
BackoffDelays(att) ==
    { calculateBackoff(att - 1, BACKOFF_BASE_MS, j) : j \in 0..(JITTER_MS - 1) }

\* C24 as stated: between every two consecutive attempts the pipeline
\* sleeps once, for a delay calculateBackoff(attempt - 1, 2000) of the earlier
\* attempt, whatever made that attempt fail (call error, unparsable response,
\* content too short), and no sleep follows the last attempt.
C24_SleepBetweenAttempts ==
    /\ \A n \in DOMAIN ev :
          ev[n].kind = "attempt" /\ n < Len(ev)
          => /\ ev[n + 1].kind = "sleep"
             /\ ev[n + 1].att = ev[n].att
             /\ ev[n + 1].ms \in BackoffDelays(ev[n].att)
    /\ \A n \in DOMAIN ev :
          ev[n].kind = "sleep"
          => /\ n > 1 /\ ev[n - 1].kind = "attempt"
             /\ ev[n].att < MAX_ATTEMPTS
    /\ Ended => ev[Len(ev)].kind = "attempt"

\* C30: the attempts field of every result generate() returns is the number
\* of attempts the run started (iterations of the attempt loop, whether or
\* not the gateway let the call through), also when the degraded result is
\* returned right after an attempt that the open breaker rejected.
C30_AttemptsFieldCountsStarted ==
    Ended /\ orch.result.status = "returned"
    => /\ orch.result.method = "single-shot"
       /\ orch.result.attempts = Len(Attempts)
       /\ orch.result.attempts = orch.attempt
       /\ orch.result.attempts = orch.issued.single

\* C30 witness: attempt 1 was healed with 2200 words, attempt 2 failed, the
\* breaker was opened by failures of other requests, attempt 3 was rejected
\* by the open breaker, and the degraded result reports 3 attempts.
C30_Witness ==
    /\ Ended /\ Len(Attempts) = 3
    /\ Attempts[1].healed /\ Attempts[1].words >= ABSOLUTE_FLOOR_WORDS
    /\ Attempts[3].res = "Circuit breaker"
    /\ orch.result.status = "returned"
    /\ orch.result.content = 1
    /\ orch.result.attempts = 3

\* ------------------------------------------------------------------------
\* Backoff specification: calculateBackoff applied to bounded arguments
\* ------------------------------------------------------------------------
\* Values of baseMs, and of Math.random() * 1000 in whole milliseconds.
BackoffBases == {0, 1, 1000, BACKOFF_BASE_MS, 15000, BACKOFF_CAP_MS, 40000}
BackoffJitters == {0, 1, 500, JITTER_MS - 1}

\* The variables of the pipelines, at rest.
AtRest ==
    /\ now = StartTime
    /\ provider = "google"
    /\ breaker = [p \in AllProviders |-> NewBreaker]
    /\ openedAt = [p \in AllProviders |-> 0]
    /\ calls = [c \in CallIds |-> IdleCall]
    /\ orch = IdleOrch
    /\ ev = <<>>

InitBackoff ==
    /\ AtRest
    /\ \E n \in 0..MaxBackoffAttempt, base \in BackoffBases, j \in BackoffJitters :
          applied = [fn |-> "calculateBackoff", args |-> <<n, base, j>>,
                     done |-> FALSE, out |-> 0]

\* calculateBackoff returns.
ApplyBackoff ==
    /\ applied.fn = "calculateBackoff" /\ ~applied.done
    /\ applied' = [applied EXCEPT
                      !.done = TRUE,
                      !.out = calculateBackoff(applied.args[1], applied.args[2],
                                               applied.args[3])]
    /\ UNCHANGED <<now, breaker, calls, provider, orch, openedAt, ev>>

NextBackoff == ApplyBackoff

SpecBackoff == InitBackoff /\ [][NextBackoff]_vars

\* C18: for every attempt n >= 0 and base baseMs >= 0 the delay lies between
\* min(baseMs * 2^n, 30000) and min(baseMs * 2^n + 1000, 30000), it never
\* exceeds 30000 ms, and the jitter-free part baseMs * 2^n does not decrease
\* as n grows.
C18_BackoffBounds ==
    applied.fn = "calculateBackoff" /\ applied.done
    => LET n == applied.args[1]
           base == applied.args[2]
       IN  /\ Min(base * 2 ^ n, 30000) <= applied.out
           /\ applied.out <= Min(base * 2 ^ n + 1000, 30000)
           /\ applied.out <= 30000
           /\ \A m \in 0..n : exponential(m, base) <= exponential(n, base)
           /\ exponential(n, base) = base * 2 ^ n

\* C18 witness: attempt 4 with base 2000 and jitter 999 (2000 * 16 + 999 >
\* 30000) returned the clamp value 30000.
C18_Witness ==
    /\ applied.fn = "calculateBackoff" /\ applied.done
    /\ applied.args = <<4, BACKOFF_BASE_MS, JITTER_MS - 1>>
    /\ applied.out = BACKOFF_CAP_MS

\* ------------------------------------------------------------------------
\* Healer specification: healJSON applied to bounded response texts
\* ------------------------------------------------------------------------
\* The beginnings of JSON texts: what JSON.parse has not rejected yet.
JsonPrefix(toks) ==
    LET st == JRun(JStart, toks) IN st.ok /\ Len(st.stack) <= MaxDepth

RECURSIVE PrefixesOfLen(_)
PrefixesOfLen(n) ==
    IF n = 0 THEN {<<>>}
    ELSE { q \in { Append(pre, tok) : pre \in PrefixesOfLen(n - 1), tok \in JsonTokens } :
             JsonPrefix(q) }

\* Truncated and whole JSON texts of at most MaxTextLen tokens.
JsonTexts == UNION { PrefixesOfLen(n) : n \in 0..MaxTextLen }
\* The whole documents among them.
Documents == { d \in JsonTexts : Parses(d) }

\* The responses: JSON text as it is, broken off, after prose, before prose,
\* with a trailing comma before the last closer, or in a fenced block (bare
\* or tagged json; tagged otherwise; not closed).
ResponseTexts ==
    JsonTexts
    \cup { <<"x">> \o d : d \in Documents }
    \cup { d \o <<"x">> : d \in Documents }
    \cup { SubSeq(d, 1, Len(d) - 1) \o <<",", d[Len(d)]>> :
              d \in { dd \in Documents : Len(dd) >= 3 } }
    \cup { <<"F">> \o d \o <<"F">> : d \in Documents }
    \cup { <<"F", "x">> \o d \o <<"F">> : d \in Documents }
    \cup { <<"F">> \o d : d \in JsonTexts }

InitHeal ==
    /\ AtRest
    /\ \E text \in ResponseTexts :
          applied = [fn |-> "healJSON", args |-> <<text>>, done |-> FALSE, out |-> 0]

\* healJSON returns.
ApplyHeal ==
    /\ applied.fn = "healJSON" /\ ~applied.done
    /\ applied' = [applied EXCEPT !.done = TRUE, !.out = healJSON(applied.args[1])]
    /\ UNCHANGED <<now, breaker, calls, provider, orch, openedAt, ev>>

NextHeal == ApplyHeal

SpecHeal == InitHeal /\ [][NextHeal]_vars

\* ------------------------------------------------------------------------
\* Properties of healJSON (SpecHeal)
\* ------------------------------------------------------------------------
HealReturned == applied.fn = "healJSON" /\ applied.done

\* The closers a broken-off JSON text lacks, innermost first.
RECURSIVE ClosersOf(_)
ClosersOf(stack) ==
    IF stack = <<>> THEN <<>>
    ELSE <<Closer(stack[Len(stack)])>> \o ClosersOf(SubSeq(stack, 1, Len(stack) - 1))
MissingClosers(text) == ClosersOf(JRun(JStart, text).stack)

\* text is a structurally valid response with a body that was broken off
\* so that only closing braces and brackets are missing.
TruncatedDocument(text) ==
    /\ \A n \in DOMAIN text : text[n] \in JsonTokens
    /\ JRun(JStart, text).ok
    /\ MissingClosers(text) # <<>>
    /\ HasBody(text \o MissingClosers(text))

\* C19 as stated: for a structurally valid response that lacks only closing
\* braces and brackets, in any nesting, healJSON returns success from the
\* truncation-closing strategy, flagged isTruncated, and the text it parsed is
\* the response followed by exactly the missing closers in nesting order.
C19_TruncationClosedInNestingOrder ==
    HealReturned /\ TruncatedDocument(applied.args[1])
    => /\ applied.out.success
       /\ applied.out.strategy = 5
       /\ applied.out.isTruncated
       /\ applied.out.parsed = applied.args[1] \o MissingClosers(applied.args[1])

\* C19 where no brace is open inside an open bracket: the closers healJSON
\* appends (brackets, then braces) are the missing ones in nesting order.
C19_BracketsInnermost ==
    HealReturned /\ TruncatedDocument(applied.args[1])
    /\ MissingClosers(applied.args[1]) =
           Repeat("]", Count(MissingClosers(applied.args[1]), "]")) \o
           Repeat("}", Count(MissingClosers(applied.args[1]), "}"))
    => /\ applied.out.success
       /\ applied.out.strategy = 5
       /\ applied.out.isTruncated
       /\ applied.out.parsed = applied.args[1] \o MissingClosers(applied.args[1])

\* text is a fenced code block (opening marker, an optional tag other than
\* json, closing marker) around a whole JSON document with a body.
FencedDocument(text) ==
    /\ Len(text) >= 3
    /\ text[1] = "F" /\ text[Len(text)] = "F"
    /\ \/ HasBody(SubSeq(text, 2, Len(text) - 1))
       \/ text[2] = "x" /\ HasBody(SubSeq(text, 3, Len(text) - 1))

\* C20 as stated: for a response that is a fenced code block around
\* otherwise-valid structured text with a body field, healJSON returns
\* success from strategy 2, not flagged truncated.
C20_FencedBlockByStrategyTwo ==
    HealReturned /\ FencedDocument(applied.args[1])
    => /\ applied.out.success
       /\ applied.out.strategy = 2
       /\ ~applied.out.isTruncated

\* C20 for a block opened by a bare marker or one tagged json: strategy 2
\* returns the document inside the block.
C20_BareFenceByStrategyTwo ==
    HealReturned /\ FencedDocument(applied.args[1]) /\ applied.args[1][2] # "x"
    => /\ applied.out.success
       /\ applied.out.strategy = 2
       /\ ~applied.out.isTruncated
       /\ applied.out.parsed = SubSeq(applied.args[1], 2, Len(applied.args[1]) - 1)

\* Strategy k of healJSON, taken alone, would return a result for text.
StrategySucceeds(k, text) ==
    LET validation == validateResponseCompleteness(text)
    IN  CASE k = 1 -> HasBody(text)
          [] k = 2 -> FenceFound(text) /\ HasBody(FencedBlock(text))
          [] k = 3 -> /\ Positions(text, {"{"}) # {} /\ Positions(text, {"}"}) # {}
                      /\ MaxOf(Positions(text, {"}"})) > MinOf(Positions(text, {"{"}))
                      /\ HasBody(Boundaries(text))
          [] k = 4 -> HasBody(FixCommas(text))
          [] k = 5 -> /\ validation.isTruncated /\ validation.truncationType = "json"
                      /\ HasBody(CloseTruncated(text))
          [] k = 6 -> FieldsExtracted(text)

\* C21: on a non-empty response the six strategies are tried in the order
\* 1 direct parse, 2 fenced block, 3 boundary extraction, 4 syntax repair,
\* 5 truncation closing, 6 field extraction; the result comes from the first
\* strategy that succeeds (every earlier one failed), a successful result is
\* flagged isTruncated exactly when it comes from strategy 5 or 6, and when
\* all six fail the result is a failure whose error carries a preview (the
\* beginning) of the raw text.
C21_FirstSuccessfulStrategyWins ==
    HealReturned /\ applied.args[1] # <<>>
    => LET text == applied.args[1]
           out == applied.out
           winners == { k \in 1..6 : StrategySucceeds(k, text) }
       IN  /\ out.success <=> winners # {}
           /\ out.success
              => /\ out.strategy = MinOf(winners)
                 /\ out.isTruncated <=> out.strategy \in {5, 6}
                 /\ out.error = "none"
           /\ ~out.success
              => /\ out.strategy = 0
                 /\ out.error = "parse"
                 /\ out.preview # <<>>
                 /\ out.preview = SubSeq(text, 1, Len(out.preview))

\* C21 witness: a response broken off after a comma; strategies 1 to 5 fail
\* (closing it leaves the dangling comma) and strategy 6 returns, flagged.
C21_Witness ==
    /\ HealReturned
    /\ applied.args[1] = <<"{", "h", ",", "t", ",">>
    /\ applied.out.success /\ applied.out.strategy = 6 /\ applied.out.isTruncated
    /\ \A k \in 1..5 : ~StrategySucceeds(k, applied.args[1])

====
